---- MODULE Spec2Model ----
(***************************************************************************)
(* State-machine model of StravaExporter.run_export and of the weekly      *)
(* batched fetch get_strava_activities_since (src/src/strava_exporter.py). *)
(*                                                                         *)
(* Time is counted in whole days.  A Python datetime is the record         *)
(* [wall, aware]: its wall-clock reading and whether it carries a UTC      *)
(* offset.  Offset-aware values are all UTC (+00:00), the form stravalib   *)
(* delivers and datetime.now(timezone.utc) produces.  An ISO-8601 date     *)
(* string is held as the datetime it spells; the difference between the    *)
(* string and the datetime shows in how the two are compared (IsoLess      *)
(* against DtRaises/DtLess).  An optional JSON key is a sequence of length *)
(* at most one: <<>> is "key missing (or falsy)", <<v>> is "key present".  *)
(***************************************************************************)
EXTENDS Integers, Sequences, FiniteSets, TLC

\* ---------------------------------------------------------------- bounds
\* clock reading when the first run starts
Now0 == 10
\* how many days the clock may advance in one behaviour
MaxTicks == 1
\* how many times run_export is invoked in one behaviour
MaxRuns == 2
\* the days_back argument of run_export
DaysBack == 8
\* number of activities the upstream account may hold (ids 1..MaxIds)
MaxIds == 2
\* largest number of workouts in the initial remote blob
MaxPrior == 2
\* how many calls to Strava or Google Drive may fail in one behaviour
MaxFaults == 2

\* ------------------------------------------------------ program constants
\* timedelta(days=7): the width of one fetch window
WINDOW == 7

\* -------------------------------------------------------------- datetimes
Dt(w, a) == [wall |-> w, aware |-> a]

\* DtRaises, were datetimes of either kind ordered by their wall time
DtComparable(a, b) == FALSE

\* Python raises TypeError when an offset-naive and an offset-aware datetime
\* are ordered (<, >=, max).
DtRaises(a, b) == a.aware # b.aware

DtLess(a, b) == a.wall < b.wall

\* str < str on two ISO-8601 strings: character by character, so by the
\* wall-clock part first; a naive string is a proper prefix of the aware
\* string of the same wall time ("...T00:00:00" < "...T00:00:00+00:00").
IsoLess(a, b) == \/ a.wall < b.wall
                 \/ a.wall = b.wall /\ ~a.aware /\ b.aware

\* ---------------------------------------------------------------- workouts
Has(opt) == opt # <<>>

\* w.get('start_date_local') or w.get('start_date')
DateStr(w) == IF Has(w.start_date_local) THEN w.start_date_local ELSE w.start_date

Workout(i, d, l, n) == [id |-> i, start_date |-> d, start_date_local |-> l, name |-> n]

\* str(activity.id)
IdStr(n) == ToString(n)

\* the workout_data dict built for one detailed activity
WorkoutData(activity) ==
    Workout(<<IdStr(activity.id)>>, <<Dt(activity.t, activity.aware)>>, <<>>, activity.name)

\* ------------------------------------------------------------- inputs
\* start times an upstream activity may have: on the lower edge of the
\* default fetch range, just inside it, and one window width after the edge
ActTimes == {Now0 - DaysBack, Now0 - DaysBack + 1, Now0 - DaysBack + WINDOW}

Activity(i, t, a) == [id |-> i, t |-> t, aware |-> a, name |-> "new"]

ActivitiesOf(i) == {Activity(i, t, a) : t \in ActTimes, a \in BOOLEAN}

\* an upstream account: at most one activity per id, each started before now
Upstreams == {u \in SUBSET (UNION {ActivitiesOf(i) : i \in 1..MaxIds}) :
                 \A x \in u, y \in u : x.id = y.id => x = y}

\* workouts a stored blob may hold
PriorWorkouts ==
    { Workout(<<IdStr(1)>>, <<Dt(Now0 - DaysBack + 1, TRUE)>>, <<>>, "old"),
      Workout(<<IdStr(2)>>, <<Dt(Now0 - DaysBack - 1, TRUE)>>, <<>>, "old"),
      Workout(<<IdStr(1)>>, <<Dt(Now0, TRUE)>>, <<>>, "old"),
      Workout(<<IdStr(1)>>, <<Dt(Now0 - DaysBack + 1, FALSE)>>, <<>>, "old"),
      Workout(<<IdStr(1)>>, <<Dt(Now0 - DaysBack + 1, TRUE)>>,
                            <<Dt(Now0 - DaysBack + 2, FALSE)>>, "old"),
      Workout(<<IdStr(1)>>, <<>>, <<>>, "old"),
      Workout(<<>>, <<Dt(Now0 - DaysBack + 1, TRUE)>>, <<>>, "old") }

SeqsUpTo(S, n) == UNION {[1..k -> S] : k \in 0..n}

\* no two workouts of the list carry the same id
UniqueIds(ws) ==
    \A i \in 1..Len(ws), j \in 1..Len(ws) :
        (i # j /\ Has(ws[i].id) /\ Has(ws[j].id)) => ws[i].id # ws[j].id

Blob(k, ws, at) == [kind |-> k, workouts |-> ws, exported_at |-> at]

\* what the remote store may hold under 'strava_export.json' before the
\* first run: nothing, bytes that are not JSON, JSON without a 'workouts'
\* member (or a falsy value), a JSON number, or a document whose workouts
\* differ in their ids
Blobs == {Blob(k, <<>>, 0) : k \in {"absent", "invalid", "other", "number"}}
         \cup {Blob("doc", ws, 0) : ws \in {x \in SeqsUpTo(PriorWorkouts, MaxPrior) :
                                                UniqueIds(x)}}

\* -------------------------------------------------- the upstream activity API
RECURSIVE AscByStart(_)
\* the activities of a set as a list, oldest first (the order the API uses when
\* 'after' is given); equal start times in id order
AscByStart(S) ==
    IF S = {} THEN <<>>
    ELSE LET x == CHOOSE a \in S : \A b \in S : a.t < b.t \/ (a.t = b.t /\ a.id <= b.id)
         IN  <<x>> \o AscByStart(S \ {x})

\* strava_client.get_activities(after=current_start, before=current_end): the
\* activities started in [after, before).  Whether an activity started exactly at
\* 'before' is returned as well is the service's choice (atBefore).
GetActivities(u, after, before, atBefore) ==
    AscByStart({a \in u : /\ after <= a.t
                          /\ (a.t < before \/ (atBefore /\ a.t = before))})

Min(a, b) == IF a <= b THEN a ELSE b

\* ------------------------------------------------- watermark (lines 291-311)
\* json.load of the downloaded file; JSONDecodeError leaves existing_data None
NoData == [kind |-> "none", workouts |-> <<>>]

JsonLoad(blob) ==
    IF blob.kind = "invalid" THEN NoData
    ELSE [kind |-> blob.kind, workouts |-> blob.workouts]

RECURSIVE ValidDates(_)
\* valid_dates: the parsed date of every workout that carries one
ValidDates(ws) ==
    IF ws = <<>> THEN <<>>
    ELSE (IF Has(DateStr(Head(ws))) THEN <<DateStr(Head(ws))[1]>> ELSE <<>>)
         \o ValidDates(Tail(ws))

\* max(valid_dates) compares the running maximum with each next element
PyMaxRaises(ds) == \E i \in 2..Len(ds) : DtRaises(ds[i], ds[1])

PyMax(ds) == ds[CHOOSE i \in 1..Len(ds) :
                  /\ \A j \in 1..Len(ds) : ~DtLess(ds[i], ds[j])
                  /\ \A j \in 1..(i - 1) : DtLess(ds[j], ds[i])]

Ok(v) == [err |-> "", value |-> v]
Raise(e) == [err |-> e, value |-> <<>>]

\* existing_data and 'workouts' in existing_data (lines 293 and 320)
HasWorkoutsKey(ed) == ed.kind = "doc"

\* LastFetchDate, had the snapshot's dates been left out of it
LastFetchDateFromDaysBack(ed, clock) == Ok(Dt(clock - DaysBack, TRUE))

\* last_fetch_date as line 311 uses it, or the exception raised on the way
LastFetchDate(ed, clock) ==
    IF ed.kind = "number" THEN Raise("TypeError: argument of type 'int' is not iterable")
    ELSE IF HasWorkoutsKey(ed) /\ ed.workouts # <<>>
    THEN LET valid_dates == ValidDates(ed.workouts)
         IN  IF valid_dates = <<>>
             THEN Raise("AttributeError: 'NoneType' object has no attribute 'date'")
             ELSE IF PyMaxRaises(valid_dates)
             THEN Raise("TypeError: can't compare offset-naive and offset-aware datetimes")
             ELSE Ok(PyMax(valid_dates))
    ELSE Ok(Dt(clock - DaysBack, TRUE))

\* ----------------------------------------------------- merge (lines 319-332)
\* {w['id'] for w in existing_data['workouts']} raises KeyError without 'id'
ExistingIdsRaises(ws) == \E i \in 1..Len(ws) : ~Has(ws[i].id)

ExistingIds(ws) == {ws[i].id : i \in 1..Len(ws)}

RECURSIVE InsertDesc(_, _)
InsertDesc(s, x) ==
    IF s = <<>> THEN <<x>>
    ELSE IF IsoLess(DateStr(Head(s))[1], DateStr(x)[1]) THEN <<x>> \o s
    ELSE <<Head(s)>> \o InsertDesc(Tail(s), x)

RECURSIVE SortDesc(_)
\* list.sort(key=<date string>, reverse=True): descending by the string, equal
\* keys in their original order
SortDesc(ws) ==
    IF ws = <<>> THEN <<>>
    ELSE LET n == Len(ws) IN InsertDesc(SortDesc(SubSeq(ws, 1, n - 1)), ws[n])

\* ordering None against a string (or None) raises TypeError
SortRaises(ws) == Len(ws) >= 2 /\ \E i \in 1..Len(ws) : ~Has(DateStr(ws[i]))

\* AppendNew without the membership test of line 326
AppendNewUnfiltered(ws, formatted_new) == ws \o formatted_new

\* lines 325-327: append the formatted workouts whose id is not an existing id
AppendNew(ws, formatted_new) ==
    ws \o SelectSeq(formatted_new, LAMBDA w : w.id \notin ExistingIds(ws))

\* the workouts of final_data after lines 320-332, or the exception raised
MergeWorkouts(ed, formatted_new) ==
    IF HasWorkoutsKey(ed)
    THEN LET appended == AppendNew(ed.workouts, formatted_new)
         IN  IF SortRaises(appended)
             THEN Raise("TypeError: '<' not supported between 'NoneType' and 'str'")
             ELSE Ok(SortDesc(appended))
    ELSE Ok(formatted_new)

\* CutoffDate taken from the offset-aware clock, datetime.now(timezone.utc)
CutoffDateAware(clock) == Dt(clock - DaysBack, TRUE)

\* ----------------------------------------------------- prune (lines 334-341)
\* cutoff_date = datetime.now() - timedelta(days=days_back): offset-naive
CutoffDate(clock) == Dt(clock - DaysBack, FALSE)

\* Keeps with > in place of >= on line 340
KeepsStrictlyNewer(w, cutoff) == DtLess(cutoff, DateStr(w)[1])

Keeps(w, cutoff) == ~DtLess(DateStr(w)[1], cutoff)

\* fromisoformat(None) raises; ordering an aware date against the cutoff raises
PruneRaises(ws, cutoff) ==
    \E i \in 1..Len(ws) : \/ ~Has(DateStr(ws[i]))
                          \/ DtRaises(DateStr(ws[i])[1], cutoff)

PruneWorkouts(ws, cutoff) ==
    IF PruneRaises(ws, cutoff)
    THEN Raise("TypeError: prune comparison")
    ELSE Ok(SelectSeq(ws, LAMBDA w : Keeps(w, cutoff)))

\* ------------------------------------------------------------------ state
VARIABLES
    now,             \* the clock (days)
    upstream,        \* the activities the Strava account holds
    remote,          \* the blob 'strava_export.json' in Google Drive
    pc,              \* where run_export stands
    runs,            \* how many runs have been started
    startRemote,     \* the remote blob when the current run started
    dl_error,        \* the download of this run ended in HttpError
    existing_data,   \* run_export: existing_data
    last_fetch_date, \* run_export: last_fetch_date, <<>> before it is set
    fetch_calls,     \* the arguments of each get_strava_activities_since call
    end_date,        \* get_strava_activities_since: end_date
    current_start,   \* get_strava_activities_since: current_start
    all_activities,  \* get_strava_activities_since: all_activities
    windows,         \* one record per get_activities call of this run
    new_activities,  \* run_export: new_activities
    formatted,       \* format_data_for_json: workouts_list
    merged,          \* final_data['workouts'] before the prune, <<>> before
    cutoff_date,     \* run_export: cutoff_date, <<>> before it is set
    final_data,      \* final_data['workouts'] after the prune
    err,             \* the exception the top-level handler caught, "" if none
    faults,          \* how many calls have failed so far
    uploaded,        \* the current run has replaced the remote blob
    prev,            \* how the run before the current one went
    gaps             \* the windows earlier runs skipped, with what they persisted

vars == <<now, upstream, remote, pc, runs, startRemote, dl_error, existing_data,
          last_fetch_date, fetch_calls, end_date, current_start, all_activities,
          windows, new_activities, formatted, merged, cutoff_date, final_data,
          err, faults, uploaded, prev, gaps>>

env == <<now, upstream, faults>>
fetcher == <<end_date, current_start, all_activities, windows>>

SomeWindowFailed == \E i \in 1..Len(windows) : ~windows[i].ok

\* before the first run there is no run to tell of
NoRun ==
    [ran |-> FALSE, uploaded |-> FALSE, workouts |-> <<>>, window_failed |-> FALSE,
     err |-> ""]

\* what the next run is told about the run that has just ended: whether it
\* replaced the blob, with which workouts, whether it skipped a window, and
\* what its top-level handler caught
RunRecord ==
    [ran |-> TRUE, uploaded |-> uploaded,
     workouts |-> IF uploaded THEN final_data ELSE <<>>,
     window_failed |-> SomeWindowFailed, err |-> err]

\* the windows the run that has just ended skipped (lines 148-151) while a
\* later window of it gave an activity that is in the document it persisted
SkippedWindows ==
    {[after |-> windows[i].after, before |-> windows[i].before] :
        i \in {i \in 1..Len(windows) :
                 /\ ~windows[i].ok
                 /\ \E j \in (i + 1)..Len(windows) :
                        /\ windows[j].ok
                        /\ \E k \in 1..Len(windows[j].result) :
                               <<IdStr(windows[j].result[k].id)>> \in ExistingIds(final_data)}}

\* what later runs are told about such a run: the windows it skipped and the
\* workouts it persisted
GapRecord == [skipped |-> SkippedWindows, workouts |-> final_data]

Init ==
    /\ now = Now0
    /\ upstream \in Upstreams
    /\ remote \in Blobs
    /\ pc = "idle"
    /\ runs = 0
    /\ startRemote = remote
    /\ dl_error = FALSE
    /\ existing_data = NoData
    /\ last_fetch_date = <<>>
    /\ fetch_calls = <<>>
    /\ end_date = 0
    /\ current_start = <<>>
    /\ all_activities = <<>>
    /\ windows = <<>>
    /\ new_activities = <<>>
    /\ formatted = <<>>
    /\ merged = <<>>
    /\ cutoff_date = <<>>
    /\ final_data = <<>>
    /\ err = ""
    /\ faults = 0
    /\ uploaded = FALSE
    /\ prev = NoRun
    /\ gaps = {}

\* Caught, had the handler pushed what had been formatted so far to the store
CaughtUploadingPartial(e) ==
    /\ pc' = "failed"
    /\ err' = e
    /\ remote' = Blob("doc", formatted, now)

\* except Exception as e: logger.error(...)  (lines 359-360)
Caught(e) ==
    /\ pc' = "failed"
    /\ err' = e
    /\ UNCHANGED remote

\* exporter.run_export(days_back): a new invocation
StartRun ==
    /\ pc \in {"idle", "done", "failed"}
    /\ runs < MaxRuns
    /\ runs' = runs + 1
    /\ pc' = "download"
    /\ startRemote' = remote
    /\ dl_error' = FALSE
    /\ existing_data' = NoData
    /\ last_fetch_date' = <<>>
    /\ fetch_calls' = <<>>
    /\ end_date' = 0
    /\ current_start' = <<>>
    /\ all_activities' = <<>>
    /\ windows' = <<>>
    /\ new_activities' = <<>>
    /\ formatted' = <<>>
    /\ merged' = <<>>
    /\ cutoff_date' = <<>>
    /\ final_data' = <<>>
    /\ err' = ""
    /\ uploaded' = FALSE
    /\ prev' = IF runs = 0 THEN NoRun ELSE RunRecord
    /\ gaps' = IF uploaded /\ SkippedWindows # {} THEN gaps \cup {GapRecord} ELSE gaps
    /\ UNCHANGED <<env, remote>>

\* the clock advances; it is read at lines 307, 131 and 335, so it is let
\* advance only right before one of these reads and between two runs
Tick ==
    /\ \/ pc \in {"watermark", "fetch", "prune"}
       \/ pc \in {"done", "failed"} /\ runs < MaxRuns
    /\ now < Now0 + MaxTicks
    /\ now' = now + 1
    /\ UNCHANGED <<upstream, faults, remote, pc, runs, startRemote, dl_error, existing_data,
                   last_fetch_date, fetch_calls, fetcher, new_activities, formatted,
                   merged, cutoff_date, final_data, err, uploaded, prev, gaps>>

\* lines 282-289, the file is in the store: download it and json.load it
DownloadFound ==
    /\ pc = "download"
    /\ remote.kind # "absent"
    /\ existing_data' = JsonLoad(remote)
    /\ pc' = "watermark"
    /\ UNCHANGED <<env, remote, runs, startRemote, dl_error, last_fetch_date,
                   fetch_calls, fetcher, new_activities, formatted, merged,
                   cutoff_date, final_data, err, uploaded, prev, gaps>>

\* lines 230-232: no file of that name, download_from_google_drive returns False
DownloadAbsent ==
    /\ pc = "download"
    /\ remote.kind = "absent"
    /\ existing_data' = NoData
    /\ pc' = "watermark"
    /\ UNCHANGED <<env, remote, runs, startRemote, dl_error, last_fetch_date,
                   fetch_calls, fetcher, new_activities, formatted, merged,
                   cutoff_date, final_data, err, uploaded, prev, gaps>>

\* lines 233-235: HttpError, download_from_google_drive returns False
DownloadHttpError ==
    /\ pc = "download"
    /\ faults < MaxFaults
    /\ faults' = faults + 1
    /\ existing_data' = NoData
    /\ dl_error' = TRUE
    /\ pc' = "watermark"
    /\ UNCHANGED <<now, upstream, remote, runs, startRemote, last_fetch_date,
                   fetch_calls, fetcher, new_activities, formatted, merged,
                   cutoff_date, final_data, err, uploaded, prev, gaps>>

\* lines 291-311: determine the last fetch date
DetermineWatermark ==
    /\ pc = "watermark"
    /\ LET r == LastFetchDate(existing_data, now)
       IN  IF r.err # ""
           THEN /\ Caught(r.err)
                /\ UNCHANGED last_fetch_date
           ELSE /\ last_fetch_date' = <<r.value>>
                /\ pc' = "fetch"
                /\ UNCHANGED <<remote, err>>
    /\ UNCHANGED <<env, runs, startRemote, dl_error, existing_data, fetch_calls,
                   fetcher, new_activities, formatted, merged, cutoff_date, final_data,
                   uploaded, prev, gaps>>

\* line 312 and lines 129-133: get_strava_activities_since(last_fetch_date) is
\* entered and reads the clock
FetchEnter ==
    /\ pc = "fetch"
    /\ fetch_calls' = Append(fetch_calls, last_fetch_date[1])
    /\ all_activities' = <<>>
    /\ end_date' = now
    /\ current_start' = last_fetch_date
    /\ windows' = <<>>
    /\ pc' = "fetch_loop"
    /\ UNCHANGED <<env, remote, runs, startRemote, dl_error, existing_data,
                   last_fetch_date, new_activities, formatted, merged, cutoff_date,
                   final_data, err, uploaded, prev, gaps>>

\* line 134: while current_start < end_date, end_date being offset-aware
LoopTestRaises == DtRaises(current_start[1], Dt(end_date, TRUE))

LoopTest == DtLess(current_start[1], Dt(end_date, TRUE))

\* CurrentEnd without the min against end_date
CurrentEndUnclamped == current_start[1].wall + WINDOW

\* line 135: current_end = min(current_start + timedelta(days=7), end_date)
CurrentEnd == Min(current_start[1].wall + WINDOW, end_date)

\* line 151: current_start += timedelta(days=7)
NextStart == <<Dt(current_start[1].wall + WINDOW, current_start[1].aware)>>

Window(ok, result) ==
    [after |-> current_start[1].wall, before |-> CurrentEnd, ok |-> ok,
     result |-> result]

\* line 134 with an offset-naive since_date: the comparison raises, and the
\* exception leaves get_strava_activities_since and is caught in run_export
FetchRaise ==
    /\ pc = "fetch_loop"
    /\ LoopTestRaises
    /\ Caught("TypeError: can't compare offset-naive and offset-aware datetimes")
    /\ UNCHANGED <<env, runs, startRemote, dl_error, existing_data, last_fetch_date,
                   fetch_calls, fetcher, new_activities, formatted, merged,
                   cutoff_date, final_data, uploaded, prev, gaps>>

\* lines 134-146 and 151: one window is fetched
FetchWindowOk ==
    /\ pc = "fetch_loop"
    /\ ~LoopTestRaises
    /\ LoopTest
    /\ \E atBefore \in BOOLEAN :
         LET activities_in_batch ==
                 GetActivities(upstream, current_start[1].wall, CurrentEnd, atBefore)
         IN  /\ all_activities' = all_activities \o activities_in_batch
             /\ windows' = Append(windows, Window(TRUE, activities_in_batch))
    /\ current_start' = NextStart
    /\ UNCHANGED <<env, remote, pc, runs, startRemote, dl_error, existing_data,
                   last_fetch_date, fetch_calls, end_date, new_activities, formatted,
                   merged, cutoff_date, final_data, err, uploaded, prev, gaps>>

\* FetchWindowFail, had the exception not been caught inside the loop
FetchWindowFailAborts ==
    /\ pc = "fetch_loop"
    /\ faults < MaxFaults
    /\ faults' = faults + 1
    /\ ~LoopTestRaises
    /\ LoopTest
    /\ windows' = Append(windows, Window(FALSE, <<>>))
    /\ Caught("window fetch failed")
    /\ UNCHANGED <<now, upstream, runs, startRemote, dl_error, existing_data,
                   last_fetch_date, fetch_calls, end_date, current_start,
                   all_activities, new_activities, formatted, merged, cutoff_date,
                   final_data, uploaded, prev, gaps>>

\* lines 134-139, 148-151: the fetch of one window raises, the error is logged
FetchWindowFail ==
    /\ pc = "fetch_loop"
    /\ faults < MaxFaults
    /\ faults' = faults + 1
    /\ ~LoopTestRaises
    /\ LoopTest
    /\ windows' = Append(windows, Window(FALSE, <<>>))
    /\ current_start' = NextStart
    /\ UNCHANGED <<now, upstream, remote, pc, runs, startRemote, dl_error, existing_data,
                   last_fetch_date, fetch_calls, end_date, all_activities,
                   new_activities, formatted, merged, cutoff_date, final_data, err,
                   uploaded, prev, gaps>>

\* lines 134, 153 and 312: the loop ends, new_activities = all_activities
FetchReturn ==
    /\ pc = "fetch_loop"
    /\ ~LoopTestRaises
    /\ ~LoopTest
    /\ new_activities' = all_activities
    /\ pc' = "merge"
    /\ UNCHANGED <<env, remote, runs, startRemote, dl_error, existing_data,
                   last_fetch_date, fetch_calls, fetcher, formatted, merged,
                   cutoff_date, final_data, err, uploaded, prev, gaps>>

\* lines 320-324 (or 332): on the merge path existing_ids is built first, then
\* format_data_for_json is entered
BeginMerge ==
    /\ pc = "merge"
    /\ IF HasWorkoutsKey(existing_data) /\ ExistingIdsRaises(existing_data.workouts)
       THEN Caught("KeyError: 'id'")
       ELSE /\ pc' = "format"
            /\ UNCHANGED <<remote, err>>
    /\ UNCHANGED <<env, runs, startRemote, dl_error, existing_data, last_fetch_date,
                   fetch_calls, fetcher, new_activities, formatted, merged,
                   cutoff_date, final_data, uploaded, prev, gaps>>

\* strava_client.get_activity(summary_activity.id) (line 159)
GetActivity(u, id) == CHOOSE a \in u : a.id = id

\* lines 158-202: the detail of the next activity is fetched and formatted
DetailOk ==
    /\ pc = "format"
    /\ Len(formatted) < Len(new_activities)
    /\ LET activity == GetActivity(upstream, new_activities[Len(formatted) + 1].id)
       IN  formatted' = Append(formatted, WorkoutData(activity))
    /\ UNCHANGED <<env, remote, pc, runs, startRemote, dl_error, existing_data,
                   last_fetch_date, fetch_calls, fetcher, new_activities, merged,
                   cutoff_date, final_data, err, uploaded, prev, gaps>>

\* line 159 raises: the exception leaves format_data_for_json
DetailFail ==
    /\ pc = "format"
    /\ faults < MaxFaults
    /\ faults' = faults + 1
    /\ Len(formatted) < Len(new_activities)
    /\ Caught("detail fetch failed")
    /\ UNCHANGED <<now, upstream, runs, startRemote, dl_error, existing_data, last_fetch_date,
                   fetch_calls, fetcher, new_activities, formatted, merged,
                   cutoff_date, final_data, uploaded, prev, gaps>>

\* lines 325-332: append the unseen workouts and sort, or take the formatted
\* list as it is
FinishMerge ==
    /\ pc = "format"
    /\ Len(formatted) = Len(new_activities)
    /\ LET r == MergeWorkouts(existing_data, formatted)
       IN  IF r.err # ""
           THEN /\ Caught(r.err)
                /\ UNCHANGED merged
           ELSE /\ merged' = r.value
                /\ pc' = "prune"
                /\ UNCHANGED <<remote, err>>
    /\ UNCHANGED <<env, runs, startRemote, dl_error, existing_data, last_fetch_date,
                   fetch_calls, fetcher, new_activities, formatted, cutoff_date,
                   final_data, uploaded, prev, gaps>>

\* lines 334-344: prune the workouts older than the threshold
Prune ==
    /\ pc = "prune"
    /\ cutoff_date' = <<CutoffDate(now)>>
    /\ LET r == PruneWorkouts(merged, CutoffDate(now))
       IN  IF r.err # ""
           THEN /\ Caught(r.err)
                /\ UNCHANGED final_data
           ELSE /\ final_data' = r.value
                /\ pc' = "save"
                /\ UNCHANGED <<remote, err>>
    /\ UNCHANGED <<env, runs, startRemote, dl_error, existing_data, last_fetch_date,
                   fetch_calls, fetcher, new_activities, formatted, merged, uploaded, prev, gaps>>

\* lines 346-355: stamp the metadata, write the file, upload it
UploadOk ==
    /\ pc = "save"
    /\ remote' = Blob("doc", final_data, now)
    /\ uploaded' = TRUE
    /\ pc' = "done"
    /\ UNCHANGED <<env, prev, gaps, runs, startRemote, dl_error, existing_data, last_fetch_date,
                   fetch_calls, fetcher, new_activities, formatted, merged,
                   cutoff_date, final_data, err>>

\* lines 258-260 and 356-357 (or 271-273): the write or the upload fails and
\* returns False; nothing reaches the store
UploadFail ==
    /\ pc = "save"
    /\ faults < MaxFaults
    /\ faults' = faults + 1
    /\ pc' = "done"
    /\ UNCHANGED <<now, upstream, remote, runs, startRemote, dl_error, existing_data,
                   last_fetch_date, fetch_calls, fetcher, new_activities, formatted,
                   merged, cutoff_date, final_data, err, uploaded, prev, gaps>>

Next ==
    \/ StartRun
    \/ Tick
    \/ DownloadFound
    \/ DownloadAbsent
    \/ DownloadHttpError
    \/ DetermineWatermark
    \/ FetchEnter
    \/ FetchRaise
    \/ FetchWindowOk
    \/ FetchWindowFail
    \/ FetchReturn
    \/ BeginMerge
    \/ DetailOk
    \/ DetailFail
    \/ FinishMerge
    \/ Prune
    \/ UploadOk
    \/ UploadFail

Spec == Init /\ [][Next]_vars

\* -------------------------------------------------------------- properties
Range(seq) == {seq[i] : i \in 1..Len(seq)}

Last(seq) == seq[Len(seq)]

\* the current run has just replaced the remote blob
Persisted == pc = "done" /\ uploaded

\* the current run got as far as line 334: final_data is merged and sorted
MergeDone == pc \in {"prune", "save", "done"} \/ (pc = "failed" /\ cutoff_date # <<>>)

\* C1: a run that ends in the top-level handler leaves the remote blob as it
\* was when the run started, and the blob changes only in the upload step, to
\* the document built in memory (final_data after merge and prune).
C1_RemoteWrittenOnlyAfterBuild ==
    /\ pc # "done" => remote = startRemote
    /\ remote # startRemote =>
          /\ Persisted
          /\ remote.kind = "doc"
          /\ remote.workouts = final_data

\* a run failed in a detail fetch, half way through formatting, with a
\* document in the store
C1_Witness ==
    /\ pc = "failed"
    /\ err = "detail fetch failed"
    /\ formatted # <<>>
    /\ remote.kind = "doc"
    /\ remote.workouts # <<>>

\* C2: every document a run persists holds no two workouts with the same id,
\* whenever the snapshot the run loaded had unique ids or there was none.
C2_PersistedIdsUnique ==
    (Persisted /\ UniqueIds(existing_data.workouts)) => UniqueIds(remote.workouts)

\* C3: after the merge, every id that is both in the loaded snapshot and among
\* the freshly formatted workouts occurs once in the merged list, and the
\* entry under it is the snapshot's entry.
C3_FirstSeenWins ==
    (MergeDone /\ HasWorkoutsKey(existing_data)) =>
        \A i \in 1..Len(formatted) :
            formatted[i].id \in ExistingIds(existing_data.workouts) =>
                /\ Cardinality({k \in 1..Len(merged) : merged[k].id = formatted[i].id}) = 1
                /\ \A k \in 1..Len(merged) :
                       merged[k].id = formatted[i].id =>
                           merged[k] \in Range(existing_data.workouts)

\* the merge met a fetched workout whose id the snapshot holds with other
\* field values
C3_Witness ==
    /\ MergeDone
    /\ HasWorkoutsKey(existing_data)
    /\ \E i \in 1..Len(formatted) :
          /\ formatted[i].id \in ExistingIds(existing_data.workouts)
          /\ formatted[i] \notin Range(existing_data.workouts)

\* the workouts the prune step was to decide on: the snapshot's and the fetched
Candidates == Range(existing_data.workouts) \cup Range(formatted)

\* C4: in a persisted document no workout is older than the cutoff
\* (now - days_back, now read by the prune step), and every workout of the
\* snapshot or of the fetch dated at or after the cutoff is in it; one dated
\* exactly at the cutoff is kept.
C4_Retention ==
    Persisted =>
        LET cutoff == cutoff_date[1].wall
        IN  /\ \A w \in Range(remote.workouts) :
                   Has(w.start_date) /\ w.start_date[1].wall >= cutoff
            /\ \A w \in Candidates :
                   (Has(w.start_date) /\ w.start_date[1].wall >= cutoff)
                       => w \in Range(remote.workouts)
            /\ \A w \in Candidates :
                   (Has(w.start_date) /\ w.start_date[1].wall < cutoff)
                       => w \notin Range(remote.workouts)

\* a persisted document from which one fetched workout was pruned and in
\* which one dated exactly at the cutoff was kept
C4_Witness ==
    /\ Persisted
    /\ \E w \in Candidates : w.start_date[1].wall < cutoff_date[1].wall
    /\ \E w \in Range(remote.workouts) : w.start_date[1].wall = cutoff_date[1].wall

SortedDescending(ws) ==
    \A i \in 1..Len(ws), j \in 1..Len(ws) :
        (i < j /\ Has(ws[i].start_date) /\ Has(ws[j].start_date))
            => ws[i].start_date[1].wall >= ws[j].start_date[1].wall

\* C5: the workouts of every persisted document are in descending order of
\* start_date, with or without a prior snapshot.
C5_PersistedSortedDescending ==
    Persisted => SortedDescending(remote.workouts)

\* the run is past the call of line 312, or has ended
PastCall == pc \notin {"idle", "download", "watermark", "fetch"}

\* get_strava_activities_since has returned in the current run
FetchReturned ==
    \/ pc \in {"merge", "format", "prune", "save", "done"}
    \/ pc = "failed" /\ fetch_calls # <<>> /\ ~LoopTestRaises

\* d is the latest start_date among the workouts ws
IsMaxStartDate(d, ws) ==
    /\ \E w \in Range(ws) : Has(w.start_date) /\ w.start_date[1] = d
    /\ \A w \in Range(ws) : Has(w.start_date) => w.start_date[1].wall <= d.wall

\* C6: with a prior snapshot of at least one workout the fetcher is called
\* exactly once, with since = the maximum start_date of the snapshot; with no
\* prior snapshot, or one without workouts, exactly once with
\* since = now - days_back.
C6_WatermarkPassedToFetcher ==
    (PastCall /\ ~dl_error) =>
        IF startRemote.kind = "doc" /\ startRemote.workouts # <<>>
        THEN /\ Len(fetch_calls) = 1
             /\ IsMaxStartDate(fetch_calls[1], startRemote.workouts)
        ELSE IF startRemote.kind \in {"absent", "invalid", "other", "doc"}
        THEN /\ Len(fetch_calls) = 1
             /\ fetch_calls[1].aware
             /\ fetch_calls[1].wall + DaysBack \in Now0..now
        ELSE TRUE

RECURSIVE ConcatResults(_)
ConcatResults(ws) ==
    IF ws = <<>> THEN <<>> ELSE Head(ws).result \o ConcatResults(Tail(ws))

\* C8: the windows fetched are [s_i, e_i) with s_1 = since, s_(i+1) = e_i,
\* 0 < e_i - s_i <= 7 days; once the fetcher has returned the last e_i is the
\* now it read, there is no window exactly when since >= now, and the list
\* returned is the window results concatenated in window order.
C8_WindowsPartitionSinceToNow ==
    (fetch_calls # <<>>) =>
        /\ \A i \in 1..Len(windows) :
              /\ windows[i].after < windows[i].before
              /\ windows[i].before - windows[i].after <= WINDOW
              /\ windows[i].before <= end_date
              /\ i = 1 => windows[i].after = Last(fetch_calls).wall
              /\ i > 1 => windows[i].after = windows[i - 1].before
        /\ FetchReturned =>
              /\ (windows = <<>>) <=> (Last(fetch_calls).wall >= end_date)
              /\ windows # <<>> => Last(windows).before = end_date
              /\ new_activities = ConcatResults(windows)

\* the fetcher returned after a full window and a shorter last one, with
\* activities from both
C8_Witness ==
    /\ FetchReturned
    /\ Len(windows) = 2
    /\ windows[1].result # <<>>
    /\ windows[2].result # <<>>
    /\ windows[2].before - windows[2].after < WINDOW

RECURSIVE ConcatFetched(_)
ConcatFetched(ws) ==
    IF ws = <<>> THEN <<>>
    ELSE (IF Head(ws).ok THEN Head(ws).result ELSE <<>>) \o ConcatFetched(Tail(ws))

\* C9: a failed window is not fetched again and does not end the loop: each
\* window starts 7 days after the one before it, failed or not, the loop still
\* runs up to now, and what the fetcher returns is the results of the windows
\* that succeeded, in window order; the failure is not what the top-level
\* handler catches.
C9_FailedWindowSkipped ==
    SomeWindowFailed =>
        /\ \A i \in 2..Len(windows) : windows[i].after = windows[i - 1].after + WINDOW
        /\ pc # "fetch_loop" =>
              /\ FetchReturned
              /\ Last(windows).before = end_date
              /\ new_activities = ConcatFetched(windows)
        /\ pc = "failed" => err # "window fetch failed"

\* a run whose first window failed persisted the workouts of its second
C9_Witness ==
    /\ Persisted
    /\ Len(windows) = 2
    /\ ~windows[1].ok
    /\ windows[2].ok
    /\ windows[2].result # <<>>
    /\ remote.workouts # <<>>

\* the blob is not a document of the expected shape, in one of the ways the
\* claim names: not JSON, no 'workouts' member, a workout without 'id' or date
Malformed(blob) ==
    \/ blob.kind \in {"invalid", "other"}
    \/ /\ blob.kind = "doc"
       /\ \E w \in Range(blob.workouts) : ~Has(w.id) \/ ~Has(w.start_date)

\* C10: a run that finds a malformed blob in the store does what a run
\* without prior snapshot does: it does not fail, it fetches from
\* now - days_back, and it replaces the blob with the fresh workouts only
\* (stated for an account without activities and a run without failed calls:
\* the blob's shape is then all that can make the run fail).
C10_MalformedSnapshotReplaced ==
    (/\ Malformed(startRemote)
     /\ upstream = {}
     /\ faults = 0
     /\ pc \in {"done", "failed"}) =>
        /\ Persisted
        /\ Len(fetch_calls) = 1
        /\ fetch_calls[1].wall + DaysBack \in Now0..now
        /\ remote.workouts = <<>>

\* the current run has loaded the snapshot the gap record g tells of
LoadedSnapshot(g) == existing_data.kind = "doc" /\ existing_data.workouts = g.workouts

\* the window w asks for some time of the skipped window s
Requests(w, s) == w.after < s.before /\ s.after < w.before

\* the upstream activities of the skipped windows of g that the run which
\* skipped them did not persist
GapActivities(g) ==
    {a \in upstream : /\ \E s \in g.skipped : s.after <= a.t /\ a.t < s.before
                      /\ <<IdStr(a.id)>> \notin ExistingIds(g.workouts)}

\* the fetcher of the current run was called once, from the latest start date
\* of the workouts ws, and asked for no time before it
FetchedFromMaxOf(ws) ==
    /\ Len(fetch_calls) = 1
    /\ IsMaxStartDate(fetch_calls[1], ws)
    /\ \A i \in 1..Len(windows) : windows[i].after >= fetch_calls[1].wall

PruneTypeError == "TypeError: prune comparison"

LoopTypeError == "TypeError: can't compare offset-naive and offset-aware datetimes"

\* the current run ended in the top-level handler with e, without a write or
\* an upload: the store is as the run found it
EndedInHandler(e) ==
    /\ pc = "failed"
    /\ err = e
    /\ ~uploaded
    /\ remote = startRemote

\* the document that reached the prune step holds a workout whose date
\* carries a UTC offset
PrunedDocHasAwareDate ==
    /\ cutoff_date # <<>>
    /\ \E k \in 1..Len(merged) :
           Has(DateStr(merged[k])) /\ DateStr(merged[k])[1].aware

\* the fetcher was called with the offset-naive maximum date of a snapshot
FetchCalledWithNaiveMax ==
    /\ HasWorkoutsKey(existing_data)
    /\ existing_data.workouts # <<>>
    /\ fetch_calls # <<>>
    /\ ~Last(fetch_calls).aware

\* C12: a run whose document at the prune step holds a workout with an
\* offset-aware date ends in the top-level handler on the comparison of line
\* 340, and a run that calls the fetcher with the offset-naive maximum date of
\* its snapshot ends there on the loop test of line 134, before any window is
\* requested; in both cases nothing is written or uploaded.
C12_NaiveAwareComparisonEndsRun ==
    /\ PrunedDocHasAwareDate => EndedInHandler(PruneTypeError)
    /\ FetchCalledWithNaiveMax =>
          /\ windows = <<>>
          /\ pc = "fetch_loop" \/ EndedInHandler(LoopTypeError)

\* a run ended on the loop test, its snapshot's dates being offset-naive, after
\* a run that ended on the prune comparison
C12_Witness ==
    /\ prev.err = PruneTypeError
    /\ FetchCalledWithNaiveMax
    /\ EndedInHandler(LoopTypeError)

\* the prune step never meets a workout whose start_date carries an offset
\* while the date it parses, start_date_local, carries none
ParsedDateIsTheOffsetDate ==
    pc = "prune" =>
        \A k \in 1..Len(merged) :
            (Has(merged[k].start_date) /\ merged[k].start_date[1].aware)
                => DateStr(merged[k])[1].aware

====
